---- MODULE Spec2Model ----
(***************************************************************************)
(* Staff Evaluation Scores Visuals (src/eval.py).                          *)
(*                                                                         *)
(* The program reads a CSV, cleans it (load_clean), and runs four chart    *)
(* stages and two summary writes (main).  Scores are modelled in tenths    *)
(* (35 is 3.5); a mean is the exact fraction <<sum, count>> and a median   *)
(* is kept doubled (med2 = 2 * median), so no rounding is introduced.      *)
(* The standard deviation columns are not modelled.                        *)
(***************************************************************************)
EXTENDS Integers, Sequences, FiniteSets, TLC

VARIABLES
    csv,        \* the input file: [header : set of raw header cells, rows : Seq(raw row)]
    args,       \* parse_args(): [school_year |-> ...]
    pc,         \* position of main
    d,          \* the cleaned table returned by load_clean
    files,      \* the output files: a function path -> content
    dirs,       \* TRUE once ensure_dirs ran
    err,        \* the exception that ended the run ("" when none)
    failedAt,   \* the stage of main the exception came from ("" when none)
    exitCode,   \* -1 while running, then the process exit status
    printed,    \* TRUE once main printed the two "Saved ..." lines
    call,       \* SpecStages / SpecNorm: the direct call made and its parameters
    g,          \* SpecNorm: the table returned by make_eval_group
    figs,       \* SpecConc: pyplot's open and saved figures
    cur,        \* SpecConc: pyplot's current figure
    tpc,        \* SpecConc: the position of each stage
    overlap     \* SpecConc: TRUE once a stage started while another was running

vars == <<csv, args, pc, d, files, dirs, err, failedAt, exitCode, printed, call, g,
          figs, cur, tpc, overlap>>

----------------------------------------------------------------------------
(* Bounds of the model *)

MaxRows == 3
MaxLabels == 2

----------------------------------------------------------------------------
(* Defaults, src/eval.py:16-25 *)

DATE_COL == "ObservationDateTime"
SCORE_COL == "ObservationScore"
SCHOOLYEAR_COL == "SchoolYear"
OBSERVER_COL == "ObserverLastFirstName"
ETYPE_COL == "EvaluationType"
OUT_FIGS == "figures_evals"
OUT_DATA == "outputs"

None == "<None>"

----------------------------------------------------------------------------
(* Generic helpers *)

Range(s) == {s[i] : i \in 1..Len(s)}

Min(a, b) == IF a <= b THEN a ELSE b
Max(a, b) == IF a >= b THEN a ELSE b

RECURSIVE SumSeq(_)
SumSeq(s) == IF s = <<>> THEN 0 ELSE Head(s) + SumSeq(Tail(s))

RECURSIVE Insert(_, _)
Insert(x, s) ==
    IF s = <<>> THEN <<x>>
    ELSE IF x <= Head(s) THEN <<x>> \o s
    ELSE <<Head(s)>> \o Insert(x, Tail(s))

RECURSIVE SortInts(_)
SortInts(s) == IF s = <<>> THEN <<>> ELSE Insert(Head(s), SortInts(Tail(s)))

\* All orderings of a finite set, as sequences without repetition.
Orderings(S) ==
    {s \in [1..Cardinality(S) -> S] : \A i, j \in 1..Cardinality(S) : i # j => s[i] # s[j]}

\* Exact fractions <<numerator, denominator>> with a positive denominator.
FracLess(a, b) == a[1] * b[2] < b[1] * a[2]
FracLeq(a, b) == a[1] * b[2] <= b[1] * a[2]
FracEq(a, b) == a[1] * b[2] = b[1] * a[2]
FracMin(a, b) == IF FracLeq(a, b) THEN a ELSE b
FracMax(a, b) == IF FracLeq(b, a) THEN a ELSE b
FracAdd(a, b) == <<a[1] * b[2] + b[1] * a[2], a[2] * b[2]>>

----------------------------------------------------------------------------
(* Cells of the CSV and their conversions *)

\* A text cell, an integer cell or an empty cell (read_csv gives NaN).
StrCell(s) == [t |-> "str", s |-> s, n |-> 0]
IntCell(n) == [t |-> "int", s |-> "", n |-> n]
NaNCell == [t |-> "nan", s |-> "", n |-> 0]

IntStr(n) ==
    CASE n = 2024 -> "2024"
      [] n = 2025 -> "2025"
      [] OTHER -> "0"

\* Series.astype(str), src/eval.py:55 and :64
AsStr(c) ==
    CASE c.t = "str" -> c.s
      [] c.t = "int" -> IntStr(c.n)
      [] OTHER -> "nan"

IsNa(c) == c.t = "nan"

\* str(c).strip() of a header cell, src/eval.py:48: the cell is the name with
\* lead leading and trail trailing blanks.
HeaderCell(name, lead, trail) == [name |-> name, lead |-> lead, trail |-> trail]
Strip(h) == h.name
Columns(table) == {Strip(h) : h \in table.header}

\* A raw date cell is the tuple of the numbers written in it: <<y, m, dd>> for
\* "y-m-dd", anything else does not parse.
NaT == [nat |-> TRUE, y |-> 0, m |-> 0, dd |-> 0]

IsLeap(y) == (y % 4 = 0 /\ y % 100 # 0) \/ y % 400 = 0
DaysIn(y, m) ==
    IF m = 2 THEN (IF IsLeap(y) THEN 29 ELSE 28)
    ELSE IF m \in {4, 6, 9, 11} THEN 30 ELSE 31

\* pd.to_datetime(..., errors="coerce"), src/eval.py:51
ToDatetime(c) ==
    IF Len(c) = 3 /\ c[2] \in 1..12 /\ c[3] >= 1 /\ c[3] <= DaysIn(c[1], c[2])
    THEN [nat |-> FALSE, y |-> c[1], m |-> c[2], dd |-> c[3]]
    ELSE NaT

\* A raw score cell is numeric text (v tenths) or other text.
NumText(v) == [num |-> TRUE, v |-> v]
OtherText == [num |-> FALSE, v |-> 0]
NaN == [nan |-> TRUE, v |-> 0]

\* pd.to_numeric(..., errors="coerce"), src/eval.py:52
ToNumeric(c) == IF c.num THEN [nan |-> FALSE, v |-> c.v] ELSE NaN

\* dt.to_period("M").astype(str), src/eval.py:56: the label "YYYY-MM" as its digits.
PeriodStr(ts) ==
    << (ts.y \div 1000) % 10, (ts.y \div 100) % 10, (ts.y \div 10) % 10, ts.y % 10,
       (ts.m \div 10) % 10, ts.m % 10 >>

\* pd.to_datetime(Month + "-01"), src/eval.py:57
MonthStartOf(label) ==
    [nat |-> FALSE,
     y |-> label[1] * 1000 + label[2] * 100 + label[3] * 10 + label[4],
     m |-> label[5] * 10 + label[6],
     dd |-> 1]

\* Order of timestamps and (lexicographic) order of month labels.
TsLess(a, b) ==
    \/ a.y < b.y
    \/ a.y = b.y /\ a.m < b.m
    \/ a.y = b.y /\ a.m = b.m /\ a.dd < b.dd

RECURSIVE LexLess(_, _)
LexLess(a, b) ==
    IF a = <<>> THEN b # <<>>
    ELSE IF b = <<>> THEN FALSE
    ELSE IF Head(a) # Head(b) THEN Head(a) < Head(b)
    ELSE LexLess(Tail(a), Tail(b))

----------------------------------------------------------------------------
(* load_clean, src/eval.py:46-58 *)

Truthy(s) == s # None /\ s # ""

\* Lines 51-52: the row as read (with its index) and its two columns coerced.
Coerce(rows) ==
    [i \in 1..Len(rows) |->
        [idx |-> i,
         date |-> ToDatetime(rows[i].date),
         score |-> ToNumeric(rows[i].score),
         sy |-> rows[i].sy, obs |-> rows[i].obs, etype |-> rows[i].etype]]

DropNaDateOnly(rows) == SelectSeq(rows, LAMBDA r : ~r.date.nat)

\* Line 53: dropna(subset=[date_col, score_col])
DropNa(rows) == SelectSeq(rows, LAMBDA r : ~r.date.nat /\ ~r.score.nan)

FilterYearIgnored(rows, cols, schoolyear_col, school_year_filter) == rows

\* Lines 54-55
FilterYear(rows, cols, schoolyear_col, school_year_filter) ==
    IF Truthy(school_year_filter) /\ schoolyear_col \in cols
    THEN SelectSeq(rows, LAMBDA r : AsStr(r.sy) = school_year_filter)
    ELSE rows

\* Lines 56-57
AddMonth(rows) ==
    [i \in 1..Len(rows) |->
        [idx |-> rows[i].idx, date |-> rows[i].date, score |-> rows[i].score,
         sy |-> rows[i].sy, obs |-> rows[i].obs, etype |-> rows[i].etype,
         Month |-> PeriodStr(rows[i].date),
         MonthStart |-> MonthStartOf(PeriodStr(rows[i].date))]]

LoadCleanRaisesBothAbsent(table, date_col, score_col) ==
    date_col \notin Columns(table) /\ score_col \notin Columns(table)

\* Lines 49-50
LoadCleanRaises(table, date_col, score_col) ==
    date_col \notin Columns(table) \/ score_col \notin Columns(table)

\* The table load_clean returns when it does not raise: its columns and rows.
LoadClean(table, date_col, score_col, schoolyear_col, school_year_filter) ==
    [cols |-> Columns(table) \cup {"Month", "MonthStart"},
     rows |-> AddMonth(FilterYear(DropNa(Coerce(table.rows)), Columns(table),
                                  schoolyear_col, school_year_filter))]

----------------------------------------------------------------------------
(* make_eval_group, src/eval.py:61-81 *)

\* The characters of each label and pattern the model uses.
Text(s) ==
    CASE s = "Teacher (Announced)" ->
           <<"T", "e", "a", "c", "h", "e", "r", " ", "(", "A", "n", "n", "o", "u", "n", "c", "e", "d", ")">>
      [] s = "Teacher (Unannounced)" ->
           <<"T", "e", "a", "c", "h", "e", "r", " ", "(", "U", "n", "a", "n", "n", "o", "u", "n", "c", "e", "d", ")">>
      [] s = "Teacher (Domain 4)" ->
           <<"T", "e", "a", "c", "h", "e", "r", " ", "(", "D", "o", "m", "a", "i", "n", " ", "4", ")">>
      [] s = "Counselor (Announced)" ->
           <<"C", "o", "u", "n", "s", "e", "l", "o", "r", " ", "(", "A", "n", "n", "o", "u", "n", "c", "e", "d", ")">>
      [] s = "Counselor (Unannounced)" ->
           <<"C", "o", "u", "n", "s", "e", "l", "o", "r", " ", "(", "U", "n", "a", "n", "n", "o", "u", "n", "c", "e", "d", ")">>
      [] s = "Counselor (Domain 4)" ->
           <<"C", "o", "u", "n", "s", "e", "l", "o", "r", " ", "(", "D", "o", "m", "a", "i", "n", " ", "4", ")">>
      [] s = "Nurse (Announced)" ->
           <<"N", "u", "r", "s", "e", " ", "(", "A", "n", "n", "o", "u", "n", "c", "e", "d", ")">>
      [] s = "Nurse (Unannounced)" ->
           <<"N", "u", "r", "s", "e", " ", "(", "U", "n", "a", "n", "n", "o", "u", "n", "c", "e", "d", ")">>
      [] s = "Nurse (Domain 4)" ->
           <<"N", "u", "r", "s", "e", " ", "(", "D", "o", "m", "a", "i", "n", " ", "4", ")">>
      [] s = "Child Study Team" ->
           <<"C", "h", "i", "l", "d", " ", "S", "t", "u", "d", "y", " ", "T", "e", "a", "m">>
      [] s = "Related Services" ->
           <<"R", "e", "l", "a", "t", "e", "d", " ", "S", "e", "r", "v", "i", "c", "e", "s">>
      [] s = "Instructional Assistant" ->
           <<"I", "n", "s", "t", "r", "u", "c", "t", "i", "o", "n", "a", "l", " ", "A", "s", "s", "i", "s", "t", "a", "n", "t">>
      [] s = "Administrator" ->
           <<"A", "d", "m", "i", "n", "i", "s", "t", "r", "a", "t", "o", "r">>
      [] s = "Media Specialist" ->
           <<"M", "e", "d", "i", "a", " ", "S", "p", "e", "c", "i", "a", "l", "i", "s", "t">>
      [] s = "Teacher Unannounced Observation Domain 2" ->
           <<"T", "e", "a", "c", "h", "e", "r", " ", "U", "n", "a", "n", "n", "o", "u", "n", "c", "e", "d", " ", "O", "b", "s", "e", "r", "v", "a", "t", "i", "o", "n", " ", "D", "o", "m", "a", "i", "n", " ", "2">>
      [] s = "Volunteer Review" ->
           <<"V", "o", "l", "u", "n", "t", "e", "e", "r", " ", "R", "e", "v", "i", "e", "w">>
      [] s = "Teacher Announced Observation Domain 4" ->
           <<"T", "e", "a", "c", "h", "e", "r", " ", "A", "n", "n", "o", "u", "n", "c", "e", "d", " ", "O", "b", "s", "e", "r", "v", "a", "t", "i", "o", "n", " ", "D", "o", "m", "a", "i", "n", " ", "4">>
      [] s = "Teacher Domain 4 Reflection" ->
           <<"T", "e", "a", "c", "h", "e", "r", " ", "D", "o", "m", "a", "i", "n", " ", "4", " ", "R", "e", "f", "l", "e", "c", "t", "i", "o", "n">>
      [] s = "Teacher Unannounced then Announced" ->
           <<"T", "e", "a", "c", "h", "e", "r", " ", "U", "n", "a", "n", "n", "o", "u", "n", "c", "e", "d", " ", "t", "h", "e", "n", " ", "A", "n", "n", "o", "u", "n", "c", "e", "d">>
      [] s = "Teacher Unannounced Domain 4" ->
           <<"T", "e", "a", "c", "h", "e", "r", " ", "U", "n", "a", "n", "n", "o", "u", "n", "c", "e", "d", " ", "D", "o", "m", "a", "i", "n", " ", "4">>
      [] s = "Counselor Domain 4 Announced" ->
           <<"C", "o", "u", "n", "s", "e", "l", "o", "r", " ", "D", "o", "m", "a", "i", "n", " ", "4", " ", "A", "n", "n", "o", "u", "n", "c", "e", "d">>
      [] s = "Nurse Unannounced Visit" ->
           <<"N", "u", "r", "s", "e", " ", "U", "n", "a", "n", "n", "o", "u", "n", "c", "e", "d", " ", "V", "i", "s", "i", "t">>
      [] s = "Child Study Team Member" ->
           <<"C", "h", "i", "l", "d", " ", "S", "t", "u", "d", "y", " ", "T", "e", "a", "m", " ", "M", "e", "m", "b", "e", "r">>
      [] s = "Related Services Provider" ->
           <<"R", "e", "l", "a", "t", "e", "d", " ", "S", "e", "r", "v", "i", "c", "e", "s", " ", "P", "r", "o", "v", "i", "d", "e", "r">>
      [] s = "Instructional Assistant Review" ->
           <<"I", "n", "s", "t", "r", "u", "c", "t", "i", "o", "n", "a", "l", " ", "A", "s", "s", "i", "s", "t", "a", "n", "t", " ", "R", "e", "v", "i", "e", "w">>
      [] s = "Administrators Evaluation" ->
           <<"A", "d", "m", "i", "n", "i", "s", "t", "r", "a", "t", "o", "r", "s", " ", "E", "v", "a", "l", "u", "a", "t", "i", "o", "n">>
      [] s = "Media Center" ->
           <<"M", "e", "d", "i", "a", " ", "C", "e", "n", "t", "e", "r">>
      [] s = "Lead Teacher Announced" ->
           <<"L", "e", "a", "d", " ", "T", "e", "a", "c", "h", "e", "r", " ", "A", "n", "n", "o", "u", "n", "c", "e", "d">>
      [] s = "teacher announced" ->
           <<"t", "e", "a", "c", "h", "e", "r", " ", "a", "n", "n", "o", "u", "n", "c", "e", "d">>
      [] s = "Teacher" ->
           <<"T", "e", "a", "c", "h", "e", "r">>
      [] s = "nan" ->
           <<"n", "a", "n">>
      [] s = "Counselor" ->
           <<"C", "o", "u", "n", "s", "e", "l", "o", "r">>
      [] s = "Nurse" ->
           <<"N", "u", "r", "s", "e">>
      [] s = "Administrators" ->
           <<"A", "d", "m", "i", "n", "i", "s", "t", "r", "a", "t", "o", "r", "s">>
      [] s = "Media" ->
           <<"M", "e", "d", "i", "a">>
      [] s = "Announced" ->
           <<"A", "n", "n", "o", "u", "n", "c", "e", "d">>
      [] s = "Unannounced" ->
           <<"U", "n", "a", "n", "n", "o", "u", "n", "c", "e", "d">>
      [] s = "Domain 4" ->
           <<"D", "o", "m", "a", "i", "n", " ", "4">>
      [] OTHER -> <<>>

LabelPool ==
    {"Teacher (Announced)",
     "Teacher (Unannounced)",
     "Teacher (Domain 4)",
     "Counselor (Announced)",
     "Counselor (Unannounced)",
     "Counselor (Domain 4)",
     "Nurse (Announced)",
     "Nurse (Unannounced)",
     "Nurse (Domain 4)",
     "Child Study Team",
     "Related Services",
     "Instructional Assistant",
     "Administrator",
     "Media Specialist",
     "Teacher Unannounced Observation Domain 2",
     "Volunteer Review",
     "Teacher Announced Observation Domain 4",
     "Teacher Domain 4 Reflection",
     "Teacher Unannounced then Announced",
     "Teacher Unannounced Domain 4",
     "Counselor Domain 4 Announced",
     "Nurse Unannounced Visit",
     "Child Study Team Member",
     "Related Services Provider",
     "Instructional Assistant Review",
     "Administrators Evaluation",
     "Media Center",
     "Lead Teacher Announced",
     "teacher announced",
     "Teacher"}

\* text[i..] starts with pat
OccursAt(pat, text, i) ==
    /\ i + Len(pat) - 1 <= Len(text)
    /\ \A k \in 1..Len(pat) : text[i + k - 1] = pat[k]

\* The rules of lines 65-78 in their order.  "^P.*Q.*$" is [pre |-> P, sub |-> Q]
\* and "^P.*$" is [pre |-> P, sub |-> ""].
Rules ==
    << [pre |-> "Teacher", sub |-> "Announced", repl |-> "Teacher (Announced)"],
       [pre |-> "Teacher", sub |-> "Unannounced", repl |-> "Teacher (Unannounced)"],
       [pre |-> "Teacher", sub |-> "Domain 4", repl |-> "Teacher (Domain 4)"],
       [pre |-> "Counselor", sub |-> "Announced", repl |-> "Counselor (Announced)"],
       [pre |-> "Counselor", sub |-> "Unannounced", repl |-> "Counselor (Unannounced)"],
       [pre |-> "Counselor", sub |-> "Domain 4", repl |-> "Counselor (Domain 4)"],
       [pre |-> "Nurse", sub |-> "Announced", repl |-> "Nurse (Announced)"],
       [pre |-> "Nurse", sub |-> "Unannounced", repl |-> "Nurse (Unannounced)"],
       [pre |-> "Nurse", sub |-> "Domain 4", repl |-> "Nurse (Domain 4)"],
       [pre |-> "Child Study Team", sub |-> "", repl |-> "Child Study Team"],
       [pre |-> "Related Services", sub |-> "", repl |-> "Related Services"],
       [pre |-> "Instructional Assistant", sub |-> "", repl |-> "Instructional Assistant"],
       [pre |-> "Administrators", sub |-> "", repl |-> "Administrator"],
       [pre |-> "Media", sub |-> "", repl |-> "Media Specialist"] >>

\* re.search of one rule's pattern in a label (case-sensitive; the labels hold
\* no line break, so ".*" spans the rest and "$" is the end).
Matches(rule, label) ==
    LET text == Text(label)
        pre == Text(rule.pre)
        sub == Text(rule.sub)
    IN  /\ OccursAt(pre, text, 1)
        /\ \E i \in (Len(pre) + 1)..(Len(text) + 1) : OccursAt(sub, text, i)

\* re.sub of one rule on a value: the anchored pattern matches the whole value
\* or nothing.
SubRule(rule, value) == IF Matches(rule, value) THEN rule.repl ELSE value

RECURSIVE ReplaceListLastWins(_, _, _)
ReplaceListLastWins(orig, value, i) ==
    IF i > Len(Rules) THEN value
    ELSE ReplaceListLastWins(orig,
             IF Matches(Rules[i], orig) THEN Rules[i].repl ELSE value, i + 1)

\* Series.replace({...}, regex=True), lines 64-79: pandas takes the pairs in the
\* dict's order; pair i acts on the rows whose original value its pattern
\* matches, and substitutes in the value the earlier pairs left there.
RECURSIVE ReplaceList(_, _, _)
ReplaceList(orig, value, i) ==
    IF i > Len(Rules) THEN value
    ELSE ReplaceList(orig,
             IF Matches(Rules[i], orig) THEN SubRule(Rules[i], value) ELSE value, i + 1)

\* The EvalGroup of one evaluation-type cell (lines 64-80; the fillna of line 80
\* finds nothing to fill, astype(str) leaves no missing value).
EvalGroupOf(cell) == ReplaceList(AsStr(cell), AsStr(cell), 1)

WithEvalGroup(rows) ==
    [i \in 1..Len(rows) |->
        [idx |-> rows[i].idx, date |-> rows[i].date, score |-> rows[i].score,
         sy |-> rows[i].sy, obs |-> rows[i].obs,
         etype |-> rows[i].etype, Month |-> rows[i].Month,
         MonthStart |-> rows[i].MonthStart,
         EvalGroup |-> EvalGroupOf(rows[i].etype)]]

MakeEvalGroupInPlace(df, etype_col) ==
    IF etype_col \notin df.cols
    THEN [raised |-> "KeyError", df |-> df, g |-> df]
    ELSE LET out == [cols |-> df.cols \cup {"EvalGroup"}, rows |-> WithEvalGroup(df.rows)]
         IN  [raised |-> "", df |-> out, g |-> out]

\* make_eval_group: df is the caller's table after the call (line 63 copies it, so
\* it is the table passed in), g the table returned.
MakeEvalGroup(df, etype_col) ==
    IF etype_col \notin df.cols
    THEN [raised |-> "KeyError", df |-> df, g |-> df]
    ELSE [raised |-> "", df |-> df,
          g |-> [cols |-> df.cols \cup {"EvalGroup"}, rows |-> WithEvalGroup(df.rows)]]

----------------------------------------------------------------------------
(* Aggregation helpers: groupby(...)[score_col].agg(...) *)

ScoresOf(rows) == [i \in 1..Len(rows) |-> rows[i].score.v]

\* mean as the exact fraction <<sum, count>>
MeanOf(scores) == <<SumSeq(scores), Len(scores)>>

\* twice the median: the middle value, or the mean of the two middle values
Median2Of(scores) ==
    LET s == SortInts(scores)
        n == Len(s)
    IN  IF n % 2 = 1 THEN 2 * s[(n + 1) \div 2] ELSE s[n \div 2] + s[n \div 2 + 1]

\* The output paths: directory, stem, tag, extension.  tag is line 185: "_" and
\* the school year when one is given ('/' and ' ' replaced), else empty.
TagOf(school_year) == IF Truthy(school_year) THEN <<"_", school_year>> ELSE <<>>
FigPath(stem, tag) == <<OUT_FIGS, stem, tag, "png">>
DataPath(stem, tag) == <<OUT_DATA, stem, tag, "csv">>

----------------------------------------------------------------------------
(* plot_hist, src/eval.py:84-102 *)

PlotHist(df, score_col, tag) ==
    LET s == ScoresOf(df.rows)
    IN  [raised |-> "", df |-> df,
         writes |-> << <<FigPath("01_hist_scores", tag),
                         [n |-> Len(s), sum |-> SumSeq(s),
                          med2 |-> IF s = <<>> THEN 0 ELSE Median2Of(s)]>> >>]

----------------------------------------------------------------------------
(* plot_box_by_type, src/eval.py:105-132 *)

BoxMinN == 10

GroupRows(gdf, label) == SelectSeq(gdf.rows, LAMBDA r : r.EvalGroup = label)

\* Lines 107-109: one stats row per EvalGroup
BoxStats(gdf) ==
    LET labels == {gdf.rows[i].EvalGroup : i \in 1..Len(gdf.rows)}
    IN  [l \in labels |->
            [n |-> Len(GroupRows(gdf, l)),
             med2 |-> Median2Of(ScoresOf(GroupRows(gdf, l)))]]

\* Line 110: stats[stats["n"] >= min_n]
Keep(stats, min_n) == {l \in DOMAIN stats : stats[l].n >= min_n}

\* Lines 110-111: sort_values("median") is not a stable sort, so groups of equal
\* median may come in either order: every ascending ordering is possible.
BoxOrders(stats, min_n) ==
    {o \in Orderings(Keep(stats, min_n)) :
        \A i \in 1..(Len(o) - 1) : stats[o[i]].med2 <= stats[o[i + 1]].med2}

\* cbook._reshape_2D as Axes.boxplot applies it to the data list: an empty list
\* becomes one empty dataset.
Reshape2D(data) == IF data = <<>> THEN << <<>> >> ELSE data

\* plt.boxplot(data, labels=order), line 116: boxplot_stats raises "Dimensions of
\* labels and X must be compatible" when the two lengths differ.
BoxplotRaises(data, labels) == Len(labels) # Len(Reshape2D(data))

\* The whole of plot_box_by_type for one outcome `order` of line 110's sort.
PlotBoxByType(df, score_col, etype_col, tag, min_n, order) ==
    LET m == MakeEvalGroup(df, etype_col)
        gdf == m.g
        stats == BoxStats(gdf)
        data == [i \in 1..Len(order) |-> ScoresOf(GroupRows(gdf, order[i]))]
        chart == [labels |-> order, data |-> data,
                  n |-> [i \in 1..Len(order) |-> stats[order[i]].n]]
        table == [i \in 1..Len(order) |->
                    [EvalGroup |-> order[i],
                     count |-> Len(GroupRows(gdf, order[i])),
                     mean |-> MeanOf(ScoresOf(GroupRows(gdf, order[i]))),
                     med2 |-> Median2Of(ScoresOf(GroupRows(gdf, order[i])))]]
    IN  IF m.raised # "" THEN [raised |-> m.raised, df |-> m.df, writes |-> <<>>]
        ELSE IF BoxplotRaises(data, order)
        THEN [raised |-> "ValueError", df |-> m.df, writes |-> <<>>]
        ELSE [raised |-> "", df |-> m.df,
              writes |-> << <<FigPath("02_box_by_type", tag), chart>>,
                            <<DataPath("type_means_grouped", tag), table>> >>]

\* The orders line 110 can produce (one, <<>>, when make_eval_group raises).
PlotBoxOrders(df, etype_col, min_n) ==
    IF MakeEvalGroup(df, etype_col).raised # "" THEN {<<>>}
    ELSE BoxOrders(BoxStats(MakeEvalGroup(df, etype_col).g), min_n)

----------------------------------------------------------------------------
(* plot_monthly_trend, src/eval.py:135-145, and the monthly table of main *)

MonthRows(df, label) == SelectSeq(df.rows, LAMBDA r : r.Month = label)

MonthKeys(df) == {<<df.rows[i].Month, df.rows[i].MonthStart>> : i \in 1..Len(df.rows)}

\* groupby(["Month", "MonthStart"]): one row per key, in the order of the keys
\* (by label, then by date)
MonthGroups(df) ==
    CHOOSE o \in Orderings(MonthKeys(df)) :
        \A i \in 1..(Len(o) - 1) :
            \/ LexLess(o[i][1], o[i + 1][1])
            \/ o[i][1] = o[i + 1][1] /\ TsLess(o[i][2], o[i + 1][2])

\* sort_values("MonthStart"): ascending by the month-start date
SortByMonthStart(keys) ==
    CHOOSE o \in Orderings(Range(keys)) :
        \A i \in 1..(Len(o) - 1) : ~TsLess(o[i + 1][2], o[i][2])

RECURSIVE FirstSeen(_, _)
FirstSeen(keys, seen) ==
    IF keys = <<>> THEN <<>>
    ELSE IF Head(keys) \in seen THEN FirstSeen(Tail(keys), seen)
    ELSE <<Head(keys)>> \o FirstSeen(Tail(keys), seen \cup {Head(keys)})

MonthlyFirstSeen(df) ==
    LET o == FirstSeen([i \in 1..Len(df.rows) |->
                          <<df.rows[i].Month, df.rows[i].MonthStart>>], {})
    IN  [i \in 1..Len(o) |->
            [Month |-> o[i][1], MonthStart |-> o[i][2],
             mean |-> MeanOf(ScoresOf(SelectSeq(df.rows, LAMBDA r : r.Month = o[i][1])))]]

\* Lines 136-138 and 194-195: the rows Month, MonthStart, mean
Monthly(df) ==
    LET o == SortByMonthStart(MonthGroups(df))
    IN  [i \in 1..Len(o) |->
            [Month |-> o[i][1], MonthStart |-> o[i][2],
             mean |-> MeanOf(ScoresOf(MonthRows(df, o[i][1])))]]

PlotMonthlyTrend(df, date_col, score_col, tag) ==
    LET monthly == Monthly(df)
    IN  [raised |-> "", df |-> df,
         writes |-> << <<FigPath("03_monthly_trend", tag),
                         [i \in 1..Len(monthly) |->
                            [x |-> monthly[i].MonthStart, y |-> monthly[i].mean]]>> >>]

\* main, lines 194-197: drop(columns=["MonthStart"]) and to_csv
WriteMonthlyMeans(df, score_col, tag) ==
    LET monthly == Monthly(df)
    IN  [raised |-> "", df |-> df,
         writes |-> << <<DataPath("monthly_means", tag),
                         [i \in 1..Len(monthly) |->
                            [Month |-> monthly[i].Month, mean |-> monthly[i].mean]]>> >>]

\* main, lines 192-193: one row per evaluation type present (groupby drops the
\* rows whose key is missing); the rows are kept as a set, their order (by label)
\* is not modelled.
WriteTypeMeans(df, etype_col, score_col, tag) ==
    IF etype_col \notin df.cols THEN [raised |-> "KeyError", df |-> df, writes |-> <<>>]
    ELSE LET present == SelectSeq(df.rows, LAMBDA r : ~IsNa(r.etype))
             keys == {present[i].etype : i \in 1..Len(present)}
         IN  [raised |-> "", df |-> df,
              writes |-> << <<DataPath("type_means", tag),
                  {[etype |-> k,
                    mean |-> MeanOf(ScoresOf(SelectSeq(present, LAMBDA r : r.etype = k)))]
                     : k \in keys}>> >>]

----------------------------------------------------------------------------
(* plot_observer_bar, src/eval.py:148-177 *)

ObsMinN == 5

\* The numbers of lines 170-171, in tenths: 3.0, 0.1, 4.0 and 4.05.
YFloor == 30
YMargin == 1
YCeil == 40
YCeilCap == <<405, 10>>

ObserverRows(df, o) == SelectSeq(df.rows, LAMBDA r : r.obs = o)

\* Lines 149-153: groupby(observer_col) leaves out the rows with no observer
ObserverStats(df) ==
    LET present == SelectSeq(df.rows, LAMBDA r : ~IsNa(r.obs))
        keys == {present[i].obs : i \in 1..Len(present)}
    IN  [o \in keys |->
            [Mean |-> MeanOf(ScoresOf(ObserverRows(df, o))),
             Count |-> Len(ObserverRows(df, o))]]

RetainedAbove(stats, min_n) == {o \in DOMAIN stats : stats[o].Count > min_n}

\* Line 154: stats[stats["Count"] >= min_n]
Retained(stats, min_n) == {o \in DOMAIN stats : stats[o].Count >= min_n}

\* Line 154: sort_values("Mean"); observers of equal mean may come in either order
ObserverOrders(stats, min_n) ==
    {o \in Orderings(Retained(stats, min_n)) :
        \A i \in 1..(Len(o) - 1) : FracLeq(stats[o[i]].Mean, stats[o[i + 1]].Mean)}

RECURSIVE MinOfSeq(_)
MinOfSeq(s) == IF Len(s) = 1 THEN s[1] ELSE FracMin(s[1], MinOfSeq(Tail(s)))

RECURSIVE MaxOfSeq(_)
MaxOfSeq(s) == IF Len(s) = 1 THEN s[1] ELSE FracMax(s[1], MaxOfSeq(Tail(s)))

YLimUncapped(means) ==
    IF means = <<>> THEN << <<YFloor, 1>>, <<YCeil, 1>> >>
    ELSE << FracMin(<<YFloor, 1>>, FracAdd(MinOfSeq(means), <<-YMargin, 1>>)),
            FracMax(<<YCeil, 1>>, FracAdd(MaxOfSeq(means), <<YMargin, 1>>)) >>

\* Lines 170-171: plt.ylim(min(3.0, Mean.min() - 0.1), min(4.05, max(4.0, Mean.max() + 0.1))).
\* With no observer retained both extremes are nan, and Python's min(3.0, nan)
\* and max(4.0, nan) return their first argument.
YLim(means) ==
    IF means = <<>> THEN << <<YFloor, 1>>, <<YCeil, 1>> >>
    ELSE << FracMin(<<YFloor, 1>>, FracAdd(MinOfSeq(means), <<-YMargin, 1>>)),
            FracMin(YCeilCap,
                    FracMax(<<YCeil, 1>>, FracAdd(MaxOfSeq(means), <<YMargin, 1>>))) >>

\* The whole of plot_observer_bar for one outcome `order` of line 154's sort.
PlotObserverBar(df, observer_col, score_col, tag, min_n, order) ==
    IF observer_col \notin df.cols THEN [raised |-> "KeyError", df |-> df, writes |-> <<>>]
    ELSE
    LET stats == ObserverStats(df)
        overall == MeanOf(ScoresOf(df.rows))
        rows == [i \in 1..Len(order) |->
                    [obs |-> order[i], Mean |-> stats[order[i]].Mean,
                     Count |-> stats[order[i]].Count]]
        chart == [bars |-> [i \in 1..Len(order) |->
                              [x |-> i - 1, label |-> order[i], height |-> rows[i].Mean,
                               color |-> IF FracLess(rows[i].Mean, overall)
                                         THEN "tab:blue" ELSE "tab:orange"]],
                  ylim |-> YLim([i \in 1..Len(order) |-> rows[i].Mean])]
    IN  [raised |-> "", df |-> df,
         writes |-> << <<FigPath("05_observer_mean_bar", tag), chart>>,
                       <<DataPath("evaluator_stats", tag), rows>> >>]

PlotObserverOrders(df, observer_col, min_n) ==
    IF observer_col \notin df.cols THEN {<<>>}
    ELSE ObserverOrders(ObserverStats(df), min_n)

----------------------------------------------------------------------------
(* The inputs of the model *)

Row(date, score, sy, obs, etype) ==
    [date |-> date, score |-> score, sy |-> sy, obs |-> obs, etype |-> etype]

\* Rows whose date and score parse
ValidRowPool ==
    { Row(<<2024, 1, 15>>, NumText(30), StrCell("2023-2024"), StrCell("Adams"),
          StrCell("Teacher Announced Observation Domain 4")),
      Row(<<2023, 11, 5>>, NumText(35), StrCell("2023-2024"), StrCell("Baker"),
          StrCell("Teacher Unannounced Observation Domain 2")),
      Row(<<2023, 12, 10>>, NumText(41), IntCell(2024), NaNCell,
          StrCell("Volunteer Review")) }

\* Rows with a date or a score that does not parse
InvalidRowPool ==
    { Row(<<2023, 13, 1>>, NumText(20), StrCell("2024-2025"), StrCell("Baker"),
          StrCell("Volunteer Review")),
      Row(<<2023, 11, 20>>, OtherText, StrCell("2024-2025"), StrCell("Adams"), NaNCell) }

RowPool == ValidRowPool \cup InvalidRowPool

SeqsUpTo(S, n) == UNION {[1..k -> S] : k \in 0..n}

RECURSIVE Copies(_, _)
Copies(r, n) == IF n = 0 THEN <<>> ELSE <<r>> \o Copies(r, n - 1)

RECURSIVE Blocks(_, _)
Blocks(counts, rows) ==
    IF counts = <<>> THEN <<>>
    ELSE Copies(Head(rows), Head(counts)) \o Blocks(Tail(counts), Tail(rows))

\* The group sizes of the spec's two scenarios: three groups of 3, 10 and 15
\* observations, and two observers of 6 observations.
BlockCounts == { <<3, 10, 15>>, <<6, 6>> }

BlockTables(pool) ==
    UNION { {Blocks(c, rows) : rows \in [1..Len(c) -> pool]} : c \in BlockCounts }

AllColumns == {DATE_COL, SCORE_COL, SCHOOLYEAR_COL, OBSERVER_COL, ETYPE_COL}

Headers ==
    { {HeaderCell(c, 0, 0) : c \in AllColumns},
      {HeaderCell(c, 1, 1) : c \in AllColumns} }
    \cup { {HeaderCell(c, 0, 0) : c \in AllColumns \ {x}} : x \in AllColumns }

Filters == {None, "", "2023-2024", "2024-2025", "2024"}

----------------------------------------------------------------------------
(* main, src/eval.py:180-200 *)

NoFiles == [q \in {} |-> 0]

Write(fs, path, content) ==
    [q \in DOMAIN fs \cup {path} |-> IF q = path THEN content ELSE fs[q]]

RECURSIVE WriteAll(_, _)
WriteAll(fs, writes) ==
    IF writes = <<>> THEN fs
    ELSE WriteAll(Write(fs, Head(writes)[1], Head(writes)[2]), Tail(writes))

EmptyTable == [cols |-> {}, rows |-> <<>>]
NoCall == [op |-> "none", min_n |-> 0]

Tag == TagOf(args.school_year)

\* An uncaught exception ends the process with status 1.
Abort(e) ==
    /\ err' = e
    /\ failedAt' = pc
    /\ exitCode' = 1
    /\ pc' = "aborted"
    /\ UNCHANGED printed

KeepGoingAfterRaise(res, next) ==
    /\ files' = WriteAll(files, res.writes)
    /\ d' = res.df
    /\ pc' = next
    /\ err' = res.raised
    /\ failedAt' = IF res.raised # "" THEN pc ELSE failedAt
    /\ UNCHANGED <<exitCode, printed>>

\* One stage of main ran to its end or to its exception.
Complete(res, next) ==
    /\ files' = WriteAll(files, res.writes)
    /\ d' = res.df
    /\ IF res.raised # ""
       THEN Abort(res.raised)
       ELSE pc' = next /\ UNCHANGED <<err, failedAt, exitCode, printed>>

\* savefig or to_csv raised OSError at the stage's write k + 1.
WriteFails(res) ==
    /\ res.raised = ""
    /\ \E k \in 0..(Len(res.writes) - 1) :
         files' = WriteAll(files, SubSeq(res.writes, 1, k))
    /\ d' = res.df
    /\ Abort("OSError")

Rest == <<call, g, figs, cur, tpc, overlap>>

\* Lines 181-182
Start ==
    /\ pc = "start"
    /\ dirs' = TRUE
    /\ pc' = "load"
    /\ UNCHANGED <<csv, args, d, files, err, failedAt, exitCode, printed>>
    /\ UNCHANGED Rest

\* Lines 183-184, load_clean raising at line 50
LoadFail ==
    /\ pc = "load"
    /\ LoadCleanRaises(csv, DATE_COL, SCORE_COL)
    /\ Abort("ValueError")
    /\ UNCHANGED <<csv, args, d, files, dirs>>
    /\ UNCHANGED Rest

\* Lines 183-184, load_clean returning
LoadOk ==
    /\ pc = "load"
    /\ ~LoadCleanRaises(csv, DATE_COL, SCORE_COL)
    /\ d' = LoadClean(csv, DATE_COL, SCORE_COL, SCHOOLYEAR_COL, args.school_year)
    /\ pc' = "hist"
    /\ UNCHANGED <<csv, args, files, dirs, err, failedAt, exitCode, printed>>
    /\ UNCHANGED Rest

\* Line 187
Hist ==
    /\ pc = "hist"
    /\ Complete(PlotHist(d, SCORE_COL, Tag), "box")
    /\ UNCHANGED <<csv, args, dirs>>
    /\ UNCHANGED Rest

\* Line 188
Box ==
    /\ pc = "box"
    /\ \E order \in PlotBoxOrders(d, ETYPE_COL, BoxMinN) :
         Complete(PlotBoxByType(d, SCORE_COL, ETYPE_COL, Tag, BoxMinN, order), "trend")
    /\ UNCHANGED <<csv, args, dirs>>
    /\ UNCHANGED Rest

\* Line 189
Trend ==
    /\ pc = "trend"
    /\ Complete(PlotMonthlyTrend(d, DATE_COL, SCORE_COL, Tag), "observer")
    /\ UNCHANGED <<csv, args, dirs>>
    /\ UNCHANGED Rest

\* Line 190
Observer ==
    /\ pc = "observer"
    /\ \E order \in PlotObserverOrders(d, OBSERVER_COL, ObsMinN) :
         Complete(PlotObserverBar(d, OBSERVER_COL, SCORE_COL, Tag, ObsMinN, order),
                  "type_means")
    /\ UNCHANGED <<csv, args, dirs>>
    /\ UNCHANGED Rest

\* Lines 192-193
TypeMeans ==
    /\ pc = "type_means"
    /\ Complete(WriteTypeMeans(d, ETYPE_COL, SCORE_COL, Tag), "monthly_means")
    /\ UNCHANGED <<csv, args, dirs>>
    /\ UNCHANGED Rest

\* Lines 194-197
MonthlyMeans ==
    /\ pc = "monthly_means"
    /\ Complete(WriteMonthlyMeans(d, SCORE_COL, Tag), "print")
    /\ UNCHANGED <<csv, args, dirs>>
    /\ UNCHANGED Rest

\* The results the stage at pc can have (one per outcome of its sort).
StageResults ==
    CASE pc = "hist" -> {PlotHist(d, SCORE_COL, Tag)}
      [] pc = "box" ->
           {PlotBoxByType(d, SCORE_COL, ETYPE_COL, Tag, BoxMinN, order) :
              order \in PlotBoxOrders(d, ETYPE_COL, BoxMinN)}
      [] pc = "trend" -> {PlotMonthlyTrend(d, DATE_COL, SCORE_COL, Tag)}
      [] pc = "observer" ->
           {PlotObserverBar(d, OBSERVER_COL, SCORE_COL, Tag, ObsMinN, order) :
              order \in PlotObserverOrders(d, OBSERVER_COL, ObsMinN)}
      [] pc = "type_means" -> {WriteTypeMeans(d, ETYPE_COL, SCORE_COL, Tag)}
      [] pc = "monthly_means" -> {WriteMonthlyMeans(d, SCORE_COL, Tag)}
      [] OTHER -> {}

\* savefig (lines 101, 127, 144, 174) or to_csv (lines 132, 177, 193, 197) fails
StageWriteFails ==
    /\ \E res \in StageResults : WriteFails(res)
    /\ UNCHANGED <<csv, args, dirs>>
    /\ UNCHANGED Rest

\* Lines 199-200, and the return of main
Done ==
    /\ pc = "print"
    /\ printed' = TRUE
    /\ exitCode' = 0
    /\ pc' = "done"
    /\ UNCHANGED <<csv, args, d, files, dirs, err, failedAt>>
    /\ UNCHANGED Rest

Init ==
    /\ csv \in [header : Headers,
                rows : SeqsUpTo(RowPool, MaxRows) \cup BlockTables(RowPool)]
    /\ args \in [school_year : Filters]
    /\ pc = "start"
    /\ d = EmptyTable
    /\ files = NoFiles
    /\ dirs = FALSE
    /\ err = ""
    /\ failedAt = ""
    /\ exitCode = -1
    /\ printed = FALSE
    /\ call = NoCall
    /\ g = EmptyTable
    /\ figs = <<>>
    /\ cur = 0
    /\ tpc = <<>>
    /\ overlap = FALSE

Next ==
    \/ Start
    \/ LoadFail
    \/ LoadOk
    \/ Hist
    \/ Box
    \/ Trend
    \/ Observer
    \/ TypeMeans
    \/ MonthlyMeans
    \/ StageWriteFails
    \/ Done

Spec == Init /\ [][Next]_vars

----------------------------------------------------------------------------
(* Claims about load_clean and main, checked under Spec *)

Absent(alias) == \A h \in csv.header : Strip(h) # alias
Loaded == pc \notin {"start", "load"} /\ failedAt # "load"

StagePaths(stage) ==
    CASE stage = "hist" -> {FigPath("01_hist_scores", Tag)}
      [] stage = "box" -> {FigPath("02_box_by_type", Tag), DataPath("type_means_grouped", Tag)}
      [] stage = "trend" -> {FigPath("03_monthly_trend", Tag)}
      [] stage = "observer" ->
           {FigPath("05_observer_mean_bar", Tag), DataPath("evaluator_stats", Tag)}
      [] stage = "type_means" -> {DataPath("type_means", Tag)}
      [] stage = "monthly_means" -> {DataPath("monthly_means", Tag)}
      [] OTHER -> {}

StageOrder == <<"hist", "box", "trend", "observer", "type_means", "monthly_means">>
StageNo(stage) == CHOOSE i \in 1..Len(StageOrder) : StageOrder[i] = stage
AllPaths == UNION {StagePaths(StageOrder[i]) : i \in 1..Len(StageOrder)}

\* C1: when the date alias or the score alias is absent from the input table,
\* main never gets past load_clean: the run ends with ValueError and exit
\* status 1, no stage is reached and no figure or summary file exists.
C1_MissingAliasAborts ==
    (Absent(DATE_COL) \/ Absent(SCORE_COL)) =>
        /\ pc \in {"start", "load", "aborted"}
        /\ DOMAIN files = {}
        /\ d = EmptyTable
        /\ ~printed
        /\ pc = "aborted" => err = "ValueError" /\ failedAt = "load" /\ exitCode = 1

C1_Witness ==
    /\ pc = "aborted"
    /\ err = "ValueError"
    /\ Absent(SCORE_COL)
    /\ ~Absent(DATE_COL)
    /\ Len(csv.rows) > 0

FilterApplies == Truthy(args.school_year) /\ ~Absent(SCHOOLYEAR_COL)

RowParses(i) ==
    /\ ~ToDatetime(csv.rows[i].date).nat
    /\ ~ToNumeric(csv.rows[i].score).nan

\* C2: the cleaned table holds exactly one row for each input row whose date
\* and score both parse (and, when the filter applies, whose school year
\* stringifies to the filter), in input order, with the parsed values of that
\* input row and no other value.
C2_CleanedRowsExact ==
    Loaded =>
        LET keep == {i \in 1..Len(csv.rows) :
                        /\ RowParses(i)
                        /\ FilterApplies => AsStr(csv.rows[i].sy) = args.school_year}
        IN  /\ {d.rows[k].idx : k \in 1..Len(d.rows)} = keep
            /\ Len(d.rows) = Cardinality(keep)
            /\ \A k \in 1..(Len(d.rows) - 1) : d.rows[k].idx < d.rows[k + 1].idx
            /\ \A k \in 1..Len(d.rows) :
                 LET raw == csv.rows[d.rows[k].idx]
                 IN  /\ d.rows[k].date = ToDatetime(raw.date)
                     /\ d.rows[k].score = ToNumeric(raw.score)
                     /\ ~d.rows[k].date.nat
                     /\ ~d.rows[k].score.nan
                     /\ d.rows[k].sy = raw.sy
                     /\ d.rows[k].obs = raw.obs
                     /\ d.rows[k].etype = raw.etype

C2_Witness ==
    /\ Loaded
    /\ Len(d.rows) >= 2
    /\ \E i \in 1..Len(csv.rows) : ToNumeric(csv.rows[i].score).nan
    /\ \E i \in 1..Len(csv.rows) : ToDatetime(csv.rows[i].date).nat
    /\ \E i, j \in 1..Len(d.rows) : i # j /\ csv.rows[d.rows[i].idx] = csv.rows[d.rows[j].idx]

\* C3 as stated: with a school-year filter and the school-year column, a filter
\* value present in the data gives a non-empty table whose school years all
\* equal the filter, and a value absent from the data gives an empty table.
C3_Original ==
    (Loaded /\ FilterApplies) =>
        IF \E i \in 1..Len(csv.rows) : AsStr(csv.rows[i].sy) = args.school_year
        THEN /\ d.rows # <<>>
             /\ \A k \in 1..Len(d.rows) : AsStr(d.rows[k].sy) = args.school_year
        ELSE d.rows = <<>>

\* C3 as amended: with a non-empty school-year filter and the school-year
\* column present, a filter value carried by at least one row whose date and
\* score both parse gives a non-empty table whose school years all stringify to
\* the filter; a value carried by no such row gives an empty table and
\* load_clean does not raise.
C3_FilterByYear ==
    (pc \notin {"start", "load"} /\ FilterApplies /\ ~Absent(DATE_COL) /\ ~Absent(SCORE_COL)) =>
        /\ failedAt # "load"
        /\ IF \E i \in 1..Len(csv.rows) :
                 RowParses(i) /\ AsStr(csv.rows[i].sy) = args.school_year
           THEN /\ d.rows # <<>>
                /\ \A k \in 1..Len(d.rows) : AsStr(d.rows[k].sy) = args.school_year
           ELSE d.rows = <<>>

C3_Witness ==
    /\ Loaded
    /\ FilterApplies
    /\ d.rows # <<>>
    /\ \E i \in 1..Len(csv.rows) : RowParses(i) /\ AsStr(csv.rows[i].sy) # args.school_year
    /\ \E k \in 1..Len(d.rows) : d.rows[k].sy.t = "int"

MonthNo(label) == MonthStartOf(label).y * 12 + MonthStartOf(label).m

\* C6: the rows of the monthly-means table and the points of the monthly trend
\* chart are in calendar order, one per distinct month of the cleaned table.
C6_MonthlyChronological ==
    LET months == {d.rows[i].Month : i \in 1..Len(d.rows)}
        table == DataPath("monthly_means", Tag)
        chart == FigPath("03_monthly_trend", Tag)
    IN  /\ table \in DOMAIN files =>
            /\ {files[table][i].Month : i \in 1..Len(files[table])} = months
            /\ Len(files[table]) = Cardinality(months)
            /\ \A i \in 1..(Len(files[table]) - 1) :
                 MonthNo(files[table][i].Month) < MonthNo(files[table][i + 1].Month)
        /\ chart \in DOMAIN files =>
            /\ {PeriodStr(files[chart][i].x) : i \in 1..Len(files[chart])} = months
            /\ Len(files[chart]) = Cardinality(months)
            /\ \A i \in 1..(Len(files[chart]) - 1) :
                 TsLess(files[chart][i].x, files[chart][i + 1].x)

\* 2024-01 is the first month of the input and the last of the table
C6_Witness ==
    /\ DataPath("monthly_means", Tag) \in DOMAIN files
    /\ Len(files[DataPath("monthly_means", Tag)]) = 3
    /\ d.rows[1].Month = <<2, 0, 2, 4, 0, 1>>
    /\ files[DataPath("monthly_means", Tag)][3].Month = <<2, 0, 2, 4, 0, 1>>
    /\ files[DataPath("monthly_means", Tag)][1].Month = <<2, 0, 2, 3, 1, 1>>

\* C10: the stages run in the order hist, box, trend, observer, type_means,
\* monthly_means; when one raises, the files of the later stages do not exist
\* and the files of the earlier stages do, and nothing is printed; the two
\* lines are printed and the exit status is 0 only when every stage completed.
C10_AllOrAbort ==
    /\ \A s \in Range(StageOrder) :
         (pc = "aborted" /\ failedAt = s) =>
            /\ \A t \in Range(StageOrder) :
                 /\ StageNo(t) > StageNo(s) => StagePaths(t) \cap DOMAIN files = {}
                 /\ StageNo(t) < StageNo(s) => StagePaths(t) \subseteq DOMAIN files
            /\ ~printed
            /\ exitCode = 1
    /\ \A s \in Range(StageOrder) :
         pc = s => /\ \A t \in Range(StageOrder) :
                        StageNo(t) >= StageNo(s) => StagePaths(t) \cap DOMAIN files = {}
                   /\ err = ""
    /\ (printed \/ exitCode = 0) =>
         /\ pc = "done"
         /\ err = ""
         /\ printed /\ exitCode = 0
         /\ DOMAIN files = AllPaths
    /\ err # "" => pc = "aborted" /\ exitCode = 1

C10_Witness ==
    /\ pc = "aborted"
    /\ failedAt = "observer"
    /\ err = "KeyError"
    /\ FigPath("03_monthly_trend", Tag) \in DOMAIN files
    /\ DataPath("type_means", Tag) \notin DOMAIN files

----------------------------------------------------------------------------
(* make_eval_group called on its own: SpecNorm *)

FullHeader == {HeaderCell(c, 0, 0) : c \in AllColumns}

LabelCells == {StrCell(l) : l \in LabelPool} \cup {NaNCell}

NormRows ==
    {Row(<<2023, 11, 5>>, NumText(35), StrCell("2023-2024"), StrCell("Baker"), c) :
        c \in LabelCells}

InitNorm ==
    /\ csv \in [header : {FullHeader, FullHeader \ {HeaderCell(ETYPE_COL, 0, 0)}},
                rows : SeqsUpTo(NormRows, MaxLabels) \ {<<>>}]
    /\ args = [school_year |-> None]
    /\ pc = "call"
    /\ d = LoadClean(csv, DATE_COL, SCORE_COL, SCHOOLYEAR_COL, args.school_year)
    /\ files = NoFiles
    /\ dirs = FALSE
    /\ err = ""
    /\ failedAt = ""
    /\ exitCode = -1
    /\ printed = FALSE
    /\ call = [op |-> "make_eval_group", min_n |-> 0]
    /\ g = EmptyTable
    /\ figs = <<>>
    /\ cur = 0
    /\ tpc = <<>>
    /\ overlap = FALSE

\* make_eval_group(d, etype_col)
MakeEvalGroupCall ==
    /\ pc = "call"
    /\ call.op = "make_eval_group"
    /\ LET m == MakeEvalGroup(d, ETYPE_COL)
       IN  /\ g' = m.g
           /\ d' = m.df
           /\ err' = m.raised
    /\ pc' = "returned"
    /\ UNCHANGED <<csv, args, files, dirs, failedAt, exitCode, printed, call,
                   figs, cur, tpc, overlap>>

NextNorm == MakeEvalGroupCall

SpecNorm == InitNorm /\ [][NextNorm]_vars

\* C4: every label gets the replacement of the first rule, in the listed
\* order, whose pattern matches it, and a label no rule matches is kept as it
\* is; "Teacher Unannounced Observation Domain 2" becomes "Teacher
\* (Unannounced)" and "Volunteer Review" stays.
C4_FirstMatchWins ==
    (pc = "returned" /\ err = "") =>
        /\ Len(g.rows) = Len(d.rows)
        /\ \A k \in 1..Len(g.rows) :
             LET label == AsStr(d.rows[k].etype)
                 hits == {i \in 1..Len(Rules) : Matches(Rules[i], label)}
                 first == CHOOSE i \in hits : \A j \in hits : i <= j
             IN  /\ hits = {} => g.rows[k].EvalGroup = label
                 /\ hits # {} => g.rows[k].EvalGroup = Rules[first].repl
                 /\ label = "Teacher Unannounced Observation Domain 2"
                      => g.rows[k].EvalGroup = "Teacher (Unannounced)"
                 /\ label = "Volunteer Review" => g.rows[k].EvalGroup = "Volunteer Review"
                 /\ label = "Teacher Announced Observation Domain 4"
                      => g.rows[k].EvalGroup = "Teacher (Announced)"
                 /\ label = "Lead Teacher Announced" => g.rows[k].EvalGroup = label

\* one label that two rules match and one that none matches
C4_Witness ==
    /\ pc = "returned"
    /\ err = ""
    /\ Len(g.rows) = 2
    /\ AsStr(d.rows[1].etype) = "Teacher Unannounced Domain 4"
    /\ Cardinality({i \in 1..Len(Rules) : Matches(Rules[i], AsStr(d.rows[1].etype))}) = 2
    /\ g.rows[1].EvalGroup = "Teacher (Unannounced)"
    /\ g.rows[2].EvalGroup = "Volunteer Review"

----------------------------------------------------------------------------
(* plot_box_by_type and plot_observer_bar called on their own: SpecStages *)

StagePool ==
    { Row(<<2024, 1, 15>>, NumText(30), StrCell("2023-2024"), StrCell("Adams"),
          StrCell("Teacher Announced Observation Domain 4")),
      Row(<<2023, 11, 5>>, NumText(35), StrCell("2023-2024"), StrCell("Baker"),
          StrCell("Teacher Unannounced Observation Domain 2")),
      Row(<<2023, 12, 10>>, NumText(41), StrCell("2023-2024"), StrCell("Clark"),
          StrCell("Volunteer Review")),
      Row(<<2023, 12, 11>>, NumText(35), StrCell("2023-2024"), StrCell("Davis"),
          StrCell("Media Center")),
      Row(<<2023, 11, 6>>, NumText(26), StrCell("2023-2024"), NaNCell,
          StrCell("Teacher (Announced)")) }

MinNs == {1, 2, 3, 5, 6, 7, 10, 11}

InitStages ==
    /\ csv \in [header : {FullHeader},
                rows : SeqsUpTo(StagePool, MaxRows) \cup BlockTables(StagePool)]
    /\ args = [school_year |-> None]
    /\ pc = "call"
    /\ d = LoadClean(csv, DATE_COL, SCORE_COL, SCHOOLYEAR_COL, args.school_year)
    /\ files = NoFiles
    /\ dirs = TRUE
    /\ err = ""
    /\ failedAt = ""
    /\ exitCode = -1
    /\ printed = FALSE
    /\ call \in [op : {"plot_box_by_type", "plot_observer_bar"}, min_n : MinNs]
    /\ g = EmptyTable
    /\ figs = <<>>
    /\ cur = 0
    /\ tpc = <<>>
    /\ overlap = FALSE

Returned(res) ==
    /\ files' = WriteAll(files, res.writes)
    /\ d' = res.df
    /\ err' = res.raised
    /\ pc' = "returned"
    /\ UNCHANGED <<csv, args, dirs, failedAt, exitCode, printed, call, g,
                   figs, cur, tpc, overlap>>

\* plot_box_by_type(d, score_col, etype_col, tag, min_n)
PlotBoxByTypeCall ==
    /\ pc = "call"
    /\ call.op = "plot_box_by_type"
    /\ \E order \in PlotBoxOrders(d, ETYPE_COL, call.min_n) :
         Returned(PlotBoxByType(d, SCORE_COL, ETYPE_COL, Tag, call.min_n, order))

\* plot_observer_bar(d, observer_col, score_col, tag, min_n)
PlotObserverBarCall ==
    /\ pc = "call"
    /\ call.op = "plot_observer_bar"
    /\ \E order \in PlotObserverOrders(d, OBSERVER_COL, call.min_n) :
         Returned(PlotObserverBar(d, OBSERVER_COL, SCORE_COL, Tag, call.min_n, order))

NextStages == PlotBoxByTypeCall \/ PlotObserverBarCall

SpecStages == InitStages /\ [][NextStages]_vars

BoxChart == FigPath("02_box_by_type", Tag)
BoxTable == DataPath("type_means_grouped", Tag)

GroupsOfD == {EvalGroupOf(d.rows[i].etype) : i \in 1..Len(d.rows)}
GroupCount(l) == Cardinality({i \in 1..Len(d.rows) : EvalGroupOf(d.rows[i].etype) = l})
GroupsAtLeast(n) == {l \in GroupsOfD : GroupCount(l) >= n}

\* What C5 says of a returned call whatever the counts: chart and table hold
\* exactly the groups of at least min_n observations, in the same order, by
\* ascending median.
BoxChartAndTableAgree ==
    /\ BoxChart \in DOMAIN files
    /\ BoxTable \in DOMAIN files
    /\ Range(files[BoxChart].labels) = GroupsAtLeast(call.min_n)
    /\ Len(files[BoxChart].labels) = Cardinality(GroupsAtLeast(call.min_n))
    /\ Len(files[BoxTable]) = Len(files[BoxChart].labels)
    /\ \A i \in 1..Len(files[BoxTable]) :
         /\ files[BoxTable][i].EvalGroup = files[BoxChart].labels[i]
         /\ files[BoxTable][i].count = GroupCount(files[BoxTable][i].EvalGroup)
         /\ Len(files[BoxChart].data[i]) = files[BoxTable][i].count
    /\ \A i \in 1..(Len(files[BoxTable]) - 1) :
         files[BoxTable][i].med2 <= files[BoxTable][i + 1].med2

\* C5: plot_box_by_type with threshold min_n puts exactly the groups of at
\* least min_n observations in the boxplot and in the grouped table, in the same
\* order, ascending by median; with every group below the threshold both are
\* empty and no error is raised.
C5_ThresholdExclusion ==
    (pc = "returned" /\ call.op = "plot_box_by_type") =>
        /\ err = ""
        /\ BoxChartAndTableAgree

\* The part of C5 the code keeps: when some group reaches the threshold.
BoxRetainedWhenSomeGroupKept ==
    (pc = "returned" /\ call.op = "plot_box_by_type" /\ GroupsAtLeast(call.min_n) # {}) =>
        /\ err = ""
        /\ BoxChartAndTableAgree

\* With no group at the threshold the call raises and writes neither file.
BoxRaisesWhenNoGroupKept ==
    (pc = "returned" /\ call.op = "plot_box_by_type" /\ GroupsAtLeast(call.min_n) = {}) =>
        /\ err = "ValueError"
        /\ DOMAIN files = {}

\* Groups of 3, 10 and 15 observations with min_n = 10
BoxScenarioReached ==
    /\ pc = "returned"
    /\ call.op = "plot_box_by_type"
    /\ call.min_n = 10
    /\ {GroupCount(l) : l \in GroupsOfD} = {3, 10, 15}
    /\ {files[BoxTable][i].count : i \in 1..Len(files[BoxTable])} = {10, 15}
    /\ Len(files[BoxTable]) = 2

ObsChart == FigPath("05_observer_mean_bar", Tag)
ObsTable == DataPath("evaluator_stats", Tag)

ObserversOfD == {d.rows[i].obs : i \in 1..Len(d.rows)} \ {NaNCell}
ObsIdx(o) == {i \in 1..Len(d.rows) : d.rows[i].obs = o}
ObsCount(o) == Cardinality(ObsIdx(o))
RECURSIVE SumOver(_)
SumOver(I) ==
    IF I = {} THEN 0
    ELSE LET i == CHOOSE j \in I : TRUE IN d.rows[i].score.v + SumOver(I \ {i})
ObsMean(o) == <<SumOver(ObsIdx(o)), ObsCount(o)>>
ObserversAtLeast(n) == {o \in ObserversOfD : ObsCount(o) >= n}

\* C7: plot_observer_bar with threshold min_n retains exactly the observers of
\* at least min_n valid observations, ascending by mean score, with one bar and
\* one row of evaluator_stats.csv per retained observer; two observers of 6
\* observations each are both retained exactly when min_n <= 6.
C7_ObserversRetained ==
    (pc = "returned" /\ call.op = "plot_observer_bar") =>
        /\ err = ""
        /\ ObsChart \in DOMAIN files
        /\ ObsTable \in DOMAIN files
        /\ {files[ObsTable][i].obs : i \in 1..Len(files[ObsTable])}
              = ObserversAtLeast(call.min_n)
        /\ Len(files[ObsTable]) = Cardinality(ObserversAtLeast(call.min_n))
        /\ Len(files[ObsChart].bars) = Cardinality(ObserversAtLeast(call.min_n))
        /\ \A i \in 1..Len(files[ObsTable]) :
             /\ files[ObsChart].bars[i].label = files[ObsTable][i].obs
             /\ files[ObsChart].bars[i].height = files[ObsTable][i].Mean
             /\ files[ObsTable][i].Count = ObsCount(files[ObsTable][i].obs)
             /\ FracEq(files[ObsTable][i].Mean, ObsMean(files[ObsTable][i].obs))
        /\ \A i \in 1..(Len(files[ObsTable]) - 1) :
             FracLeq(files[ObsTable][i].Mean, files[ObsTable][i + 1].Mean)
        /\ (Cardinality(ObserversOfD) = 2 /\ \A o \in ObserversOfD : ObsCount(o) = 6)
             => (Len(files[ObsTable]) = 2 <=> call.min_n <= 6)

\* two observers of 6 observations, min_n = 6, both retained
C7_Witness ==
    /\ pc = "returned"
    /\ call.op = "plot_observer_bar"
    /\ call.min_n = 6
    /\ Cardinality(ObserversOfD) = 2
    /\ \A o \in ObserversOfD : ObsCount(o) = 6
    /\ Len(files[ObsTable]) = 2
    /\ FracLess(files[ObsTable][1].Mean, files[ObsTable][2].Mean)

LeastMean(S) == ObsMean(CHOOSE o \in S : \A q \in S : FracLeq(ObsMean(o), ObsMean(q)))
GreatestMean(S) == ObsMean(CHOOSE o \in S : \A q \in S : FracLeq(ObsMean(q), ObsMean(o)))

\* C8 as stated: the axis floor is the lesser of 3.0 and the least retained
\* mean minus 0.1, and the ceiling is the greater of 4.0 and the greatest
\* retained mean plus 0.1.
C8_Original ==
    (pc = "returned" /\ call.op = "plot_observer_bar" /\ ObserversAtLeast(call.min_n) # {}) =>
        LET S == ObserversAtLeast(call.min_n)
            lo == FracAdd(LeastMean(S), <<-1, 1>>)
            hi == FracAdd(GreatestMean(S), <<1, 1>>)
        IN  /\ FracEq(files[ObsChart].ylim[1], FracMin(<<30, 1>>, lo))
            /\ FracEq(files[ObsChart].ylim[2], FracMax(<<40, 1>>, hi))

\* C8 as amended: the floor is the lesser of 3.0 and the least retained mean
\* minus 0.1; the ceiling is the greater of 4.0 and the greatest retained mean
\* plus 0.1, but never more than 4.05; so the tallest bar lies inside the axis
\* range exactly when the greatest mean is at most 4.05.  With no observer
\* retained the range is 3.0 to 4.0.
C8_AxisLimits ==
    (pc = "returned" /\ call.op = "plot_observer_bar") =>
        LET S == ObserversAtLeast(call.min_n)
            ylim == files[ObsChart].ylim
        IN  IF S = {} THEN ylim = << <<30, 1>>, <<40, 1>> >>
            ELSE LET lo == FracAdd(LeastMean(S), <<-1, 1>>)
                     hi == FracAdd(GreatestMean(S), <<1, 1>>)
                 IN  /\ FracEq(ylim[1], FracMin(<<30, 1>>, lo))
                     /\ FracEq(ylim[2], FracMin(<<405, 10>>, FracMax(<<40, 1>>, hi)))
                     /\ FracLeq(ylim[1], LeastMean(S))
                     /\ FracLeq(GreatestMean(S), ylim[2])
                          <=> FracLeq(GreatestMean(S), <<405, 10>>)

\* a retained mean of 4.1: the ceiling is 4.05 and the bar passes it
C8_Witness ==
    /\ pc = "returned"
    /\ call.op = "plot_observer_bar"
    /\ ObserversAtLeast(call.min_n) # {}
    /\ FracEq(GreatestMean(ObserversAtLeast(call.min_n)), <<41, 1>>)
    /\ FracEq(LeastMean(ObserversAtLeast(call.min_n)), <<30, 1>>)
    /\ FracEq(files[ObsChart].ylim[2], <<405, 10>>)
    /\ FracEq(files[ObsChart].ylim[1], <<29, 1>>)

----------------------------------------------------------------------------
(* The six stages of main run as interleaved threads over pyplot: SpecConc *)

ChartStages == {"hist", "box", "trend", "observer"}
TableStages == {"type_means", "monthly_means"}
Stages == ChartStages \cup TableStages

\* The stages that call pyplot functions, which act on the current figure
\* (plt.gca, plt.boxplot: lines 115-116; plt.plot: line 140; plt.bar: line 160).
\* plot_hist draws through the axes plt.subplots returned (lines 87-99).
UsesCurrentFigure == {"box", "trend", "observer"}

\* plt.figure() / plt.subplots(): the new figure's number
NewFigureNum(fs) ==
    IF fs = <<>> THEN 1
    ELSE 1 + (CHOOSE n \in {fs[i].num : i \in 1..Len(fs)} :
                \A k \in 1..Len(fs) : fs[k].num <= n)

DrawOn(fs, num, artist) ==
    [i \in 1..Len(fs) |->
        IF fs[i].num = num
        THEN [num |-> num, artists |-> Append(fs[i].artists, artist)]
        ELSE fs[i]]

ArtistsOf(fs, num) == (CHOOSE f \in Range(fs) : f.num = num).artists

\* plt.close(fig): the figure is destroyed and the most recently activated of
\* the others becomes current
CloseFigure(fs, num) == SelectSeq(fs, LAMBDA f : f.num # num)
CurrentOf(fs) == IF fs = <<>> THEN 0 ELSE fs[Len(fs)].num

\* The results a stage can have on table df (one per outcome of its sort)
ResultsOf(s, df, tag) ==
    CASE s = "hist" -> {PlotHist(df, SCORE_COL, tag)}
      [] s = "box" ->
           {PlotBoxByType(df, SCORE_COL, ETYPE_COL, tag, BoxMinN, order) :
              order \in PlotBoxOrders(df, ETYPE_COL, BoxMinN)}
      [] s = "trend" -> {PlotMonthlyTrend(df, DATE_COL, SCORE_COL, tag)}
      [] s = "observer" ->
           {PlotObserverBar(df, OBSERVER_COL, SCORE_COL, tag, ObsMinN, order) :
              order \in PlotObserverOrders(df, OBSERVER_COL, ObsMinN)}
      [] s = "type_means" -> {WriteTypeMeans(df, ETYPE_COL, SCORE_COL, tag)}
      [] s = "monthly_means" -> {WriteMonthlyMeans(df, SCORE_COL, tag)}

Running(s) == tpc[s].at = "figure"

ConcPool == {r \in ValidRowPool : ~IsNa(r.obs)}
ConcFirstRow == CHOOSE r \in ConcPool : r.obs = StrCell("Adams")
ConcTables == {t \in BlockTables(ConcPool) : t[1] = ConcFirstRow}

InitConc ==
    /\ csv \in [header : {FullHeader}, rows : ConcTables]
    /\ args = [school_year |-> None]
    /\ pc = "stages"
    /\ d = LoadClean(csv, DATE_COL, SCORE_COL, SCHOOLYEAR_COL, args.school_year)
    /\ files = NoFiles
    /\ dirs = TRUE
    /\ err = ""
    /\ failedAt = ""
    /\ exitCode = -1
    /\ printed = FALSE
    /\ call = NoCall
    /\ g = EmptyTable
    /\ figs = <<>>
    /\ cur = 0
    /\ tpc = [s \in Stages |-> [at |-> "ready", fig |-> 0, res |-> <<>>]]
    /\ overlap = FALSE

ConcFrame == UNCHANGED <<csv, args, pc, dirs, err, failedAt, exitCode, printed, call, g>>

\* plt.subplots (line 87) or plt.figure (lines 114, 139, 158) of stage s, after
\* the aggregation that precedes it
ConcNewFigure(s) ==
    /\ tpc[s].at = "ready"
    /\ \E res \in ResultsOf(s, d, Tag) :
         /\ d' = res.df
         /\ IF res.raised = "KeyError"
            THEN /\ tpc' = [tpc EXCEPT ![s] = [at |-> "failed", fig |-> 0, res |-> res]]
                 /\ UNCHANGED <<figs, cur>>
            ELSE /\ figs' = Append(figs, [num |-> NewFigureNum(figs), artists |-> <<>>])
                 /\ cur' = NewFigureNum(figs)
                 /\ tpc' = [tpc EXCEPT ![s] =
                              [at |-> "figure", fig |-> NewFigureNum(figs), res |-> res]]
    /\ overlap' = (overlap \/ \E t \in Stages \ {s} : Running(t))
    /\ UNCHANGED files
    /\ ConcFrame

\* The drawing calls of stage s, where plt.boxplot may raise (line 116), then
\* fig.savefig, plt.close(fig) and the stage's to_csv (lines 88-102, 115-132,
\* 140-145, 160-177), taken as one step.
ConcDrawAndSave(s) ==
    /\ tpc[s].at = "figure"
    /\ IF tpc[s].res.raised # ""
       THEN /\ tpc' = [tpc EXCEPT ![s].at = "failed"]
            /\ UNCHANGED <<figs, cur, files>>
       ELSE LET drawn == DrawOn(figs, IF s \in UsesCurrentFigure THEN cur ELSE tpc[s].fig,
                                [by |-> s, what |-> tpc[s].res.writes[1][2]])
            IN  /\ files' = WriteAll(Write(files, tpc[s].res.writes[1][1],
                                           ArtistsOf(drawn, tpc[s].fig)),
                                     Tail(tpc[s].res.writes))
                /\ figs' = CloseFigure(drawn, tpc[s].fig)
                /\ cur' = IF cur = tpc[s].fig
                          THEN CurrentOf(CloseFigure(drawn, tpc[s].fig)) ELSE cur
                /\ tpc' = [tpc EXCEPT ![s] = [at |-> "done", fig |-> 0, res |-> <<>>]]
    /\ UNCHANGED <<d, overlap>>
    /\ ConcFrame

\* The two summary writes of main (lines 192-197)
ConcWriteTable(s) ==
    /\ tpc[s].at = "ready"
    /\ \E res \in ResultsOf(s, d, Tag) :
         /\ d' = res.df
         /\ files' = WriteAll(files, res.writes)
         /\ tpc' = [tpc EXCEPT ![s] =
                      [at |-> IF res.raised # "" THEN "failed" ELSE "done",
                       fig |-> 0, res |-> <<>>]]
    /\ overlap' = (overlap \/ \E t \in Stages \ {s} : Running(t))
    /\ UNCHANGED <<figs, cur>>
    /\ ConcFrame

NextConc ==
    \/ \E s \in ChartStages : ConcNewFigure(s)
    \/ \E s \in ChartStages : ConcDrawAndSave(s)
    \/ \E s \in TableStages : ConcWriteTable(s)

SpecConc == InitConc /\ [][NextConc]_vars

\* The files of stage s hold what the stage writes when it runs alone on d.
WritesAsAlone(s) ==
    \E res \in ResultsOf(s, d, Tag) :
        /\ res.raised = ""
        /\ \A i \in 1..Len(res.writes) :
             LET path == res.writes[i][1]
                 content == res.writes[i][2]
             IN  IF s \in ChartStages /\ i = 1
                 THEN /\ Len(files[path]) = 1
                      /\ files[path][1].by = s
                      /\ files[path][1].what = content
                 ELSE files[path] = content

\* Each stage leaves the cleaned table as load_clean returned it and writes
\* its own paths only, which no other stage writes.
StagesKeepToThemselves ==
    /\ d = LoadClean(csv, DATE_COL, SCORE_COL, SCHOOLYEAR_COL, args.school_year)
    /\ \A s, t \in Stages : s # t => StagePaths(s) \cap StagePaths(t) = {}
    /\ DOMAIN files = UNION {StagePaths(s) : s \in {t \in Stages : tpc[t].at = "done"}}

\* C9 as stated: the stages are independent, so in any order or interleaving
\* every stage's files hold the contents the stage gives them on its own.
C9_Original ==
    /\ StagesKeepToThemselves
    /\ \A s \in Stages : tpc[s].at = "done" => WritesAsAlone(s)

\* C9 as amended: each stage leaves the cleaned table unchanged and writes
\* only its own paths, which no other stage writes; executed one at a time, in
\* any order, every stage's files hold the contents the stage gives them on its
\* own, so the final files are the same for every order.  (Not so when the
\* statements of two chart stages interleave: plt.gca, plt.boxplot, plt.plot
\* and plt.bar draw on pyplot's current figure.)
C9_AnyOrder ==
    /\ StagesKeepToThemselves
    /\ ~overlap => \A s \in Stages : tpc[s].at = "done" => WritesAsAlone(s)

\* the stages ran one at a time, the histogram last and the observer bars
\* before it
C9_Witness ==
    /\ ~overlap
    /\ tpc["observer"].at = "done"
    /\ tpc["monthly_means"].at = "done"
    /\ tpc["box"].at = "done"
    /\ tpc["trend"].at = "done"
    /\ tpc["type_means"].at = "done"
    /\ tpc["hist"].at = "figure"
    /\ tpc["hist"].fig = 1
    /\ cur = 1
    /\ Len(files[FigPath("05_observer_mean_bar", Tag)][1].what.bars) = 2
    /\ Cardinality(DOMAIN files) = 7

====
